---- MODULE Spec2Model ----
(***************************************************************************)
(* Model of the two icon-container encoders of apps/desktop:               *)
(*   create-icns.py  create_icns(png_files, output_file)                   *)
(*   create-ico.py   create_ico(png_files, output_file)                    *)
(* A byte buffer is a sequence of naturals in 0..255.  A file is a record  *)
(* [exists, bytes].  Each encoder call is one action: it reads every input *)
(* file, runs its loops and either raises struct.error, returns without    *)
(* writing, or opens the output file with mode 'wb' and writes it.         *)
(*                                                                         *)
(* Integers of the model are TLC's 32-bit signed integers, so the          *)
(* 32-bit unsigned fields are exercised up to 2^31 - 1.                    *)
(***************************************************************************)
EXTENDS Integers, Sequences, FiniteSets, TLC

VARIABLES
    png_files,      \* contents of the input files, in the order of the path list
    icns_file,      \* the ICNS output file: [exists, bytes]
    ico_file,       \* the ICO output file:  [exists, bytes]
    icns_pc,        \* "ready" | "returned" | "raised"  (create_icns call)
    ico_pc,         \* "ready" | "returned" | "raised"  (create_ico call)
    icns_opened,    \* create_icns executed open(output_file, 'wb')
    ico_opened,     \* create_ico executed open(output_file, 'wb')
    widths,         \* create_icns: the value of `width` of each retained image
    images          \* create_ico: the list `images` of (w, h, data) after the read loop

vars == <<png_files, icns_file, ico_file, icns_pc, ico_pc,
          icns_opened, ico_opened, widths, images>>

----------------------------------------------------------------------------
(* Bounds of the model.                                                    *)

MaxFiles == 3

----------------------------------------------------------------------------
(* Python primitives used by the encoders.                                 *)

Min(a, b) == IF a < b THEN a ELSE b

\* data[a:b] for 0 <= a <= b: clipped to the buffer, empty when a is past the end.
Slice(data, a, b) == SubSeq(data, Min(a, Len(data)) + 1, Min(b, Len(data)))

\* b'\x89PNG\r\n\x1a\n'
PNG_SIGNATURE == <<137, 80, 78, 71, 13, 10, 26, 10>>

\* struct.unpack('>I', b)[0]: raises struct.error unless b has exactly 4 bytes.
unpack_BE_I(b) ==
    IF Len(b) # 4
    THEN [raised |-> TRUE, val |-> 0]
    ELSE [raised |-> FALSE,
          val |-> ((b[1] * 256 + b[2]) * 256 + b[3]) * 256 + b[4]]

\* struct.pack('>I', n)
pack_BE_I(n) ==
    <<(n \div 16777216) % 256, (n \div 65536) % 256, (n \div 256) % 256, n % 256>>

\* struct.pack('<I', n)
pack_LE_I(n) ==
    <<n % 256, (n \div 256) % 256, (n \div 65536) % 256, (n \div 16777216) % 256>>

\* struct.pack('<H', n)
pack_LE_H(n) == <<n % 256, (n \div 256) % 256>>

\* struct.pack('<B', n)
pack_B(n) == <<n>>

RECURSIVE Concat(_)
\* b''.join(list): the buffers of a list written one after the other.
Concat(list) ==
    IF list = <<>> THEN <<>> ELSE Head(list) \o Concat(Tail(list))

----------------------------------------------------------------------------
(* create-icns.py                                                          *)

icp4 == <<105, 99, 112, 52>>
icp5 == <<105, 99, 112, 53>>
icp6 == <<105, 99, 112, 54>>
ic07 == <<105, 99, 48, 55>>
ic08 == <<105, 99, 48, 56>>
ic09 == <<105, 99, 48, 57>>
ic10 == <<105, 99, 49, 48>>
icns_magic == <<105, 99, 110, 115>>

\* the dict icon_types
icon_types ==
    (16 :> icp4) @@ (32 :> icp5) @@ (48 :> icp6) @@ (128 :> ic07) @@
    (256 :> ic08) @@ (512 :> ic09) @@ (1024 :> ic10)

\* Variant: the lookup defaults to the largest code instead of the 512px code.
icon_type_of_default_ic10(width) ==
    IF width \in DOMAIN icon_types THEN icon_types[width] ELSE ic10

\* icon_types.get(width, b'ic09')
icon_type_of(width) ==
    IF width \in DOMAIN icon_types THEN icon_types[width] ELSE ic09

\* Variant: the entry length counts the payload only, not its 8-byte header.
icns_iter_payload_only_size(st, data) ==
    IF st.raised THEN st
    ELSE IF Slice(data, 0, 8) # PNG_SIGNATURE THEN st
    ELSE LET u == unpack_BE_I(Slice(data, 16, 20)) IN
         IF u.raised THEN [st EXCEPT !.raised = TRUE]
         ELSE LET width      == u.val
                  icon_type  == icon_type_of(width)
                  entry_size == Len(data)
                  entry      == icon_type \o pack_BE_I(entry_size) \o data
              IN  [raised     |-> FALSE,
                   entries    |-> Append(st.entries, entry),
                   total_size |-> st.total_size + entry_size,
                   widths     |-> Append(st.widths, width)]

\* One iteration of the loop `for png_file in png_files` of create_icns.
\* st = [raised, entries, total_size, widths]
icns_iter(st, data) ==
    IF st.raised THEN st
    ELSE IF Slice(data, 0, 8) # PNG_SIGNATURE THEN st
    ELSE LET u == unpack_BE_I(Slice(data, 16, 20)) IN
         IF u.raised THEN [st EXCEPT !.raised = TRUE]
         ELSE LET width      == u.val
                  icon_type  == icon_type_of(width)
                  entry_size == 8 + Len(data)
                  entry      == icon_type \o pack_BE_I(entry_size) \o data
              IN  [raised     |-> FALSE,
                   entries    |-> Append(st.entries, entry),
                   total_size |-> st.total_size + entry_size,
                   widths     |-> Append(st.widths, width)]

RECURSIVE icns_loop(_, _)
icns_loop(st, files) ==
    IF files = <<>> THEN st
    ELSE icns_loop(icns_iter(st, Head(files)), Tail(files))

\* The locals of create_icns when its read loop ends.
icns_read(files) ==
    icns_loop([raised |-> FALSE, entries |-> <<>>, total_size |-> 8,
               widths |-> <<>>], files)

\* The bytes written by the `with open(output_file, 'wb')` block.
icns_written(st) ==
    icns_magic \o pack_BE_I(st.total_size) \o Concat(st.entries)

CreateIcns ==
    /\ icns_pc = "ready"
    /\ LET st == icns_read(png_files) IN
       IF st.raised
       THEN /\ icns_pc' = "raised"
            /\ UNCHANGED <<icns_file, icns_opened, widths>>
       ELSE /\ icns_pc' = "returned"
            /\ icns_opened' = TRUE
            /\ icns_file' = [exists |-> TRUE, bytes |-> icns_written(st)]
            /\ widths' = st.widths
    /\ UNCHANGED <<png_files, ico_file, ico_pc, ico_opened, images>>

----------------------------------------------------------------------------
(* create-ico.py                                                           *)

\* Variant: width and height are read from each other's offsets.
ico_iter_swapped_offsets(st, data) ==
    IF st.raised THEN st
    ELSE IF Slice(data, 0, 8) # PNG_SIGNATURE THEN st
    ELSE LET width  == Slice(data, 20, 24)
             height == Slice(data, 16, 20)
             w == unpack_BE_I(width)
             h == unpack_BE_I(height)
         IN  IF w.raised \/ h.raised THEN [st EXCEPT !.raised = TRUE]
             ELSE [raised |-> FALSE,
                   images |-> Append(st.images,
                                     [w |-> w.val, h |-> h.val, data |-> data])]

\* Variant: the signature is not checked; only the length decides.
ico_iter_no_signature_check(st, data) ==
    IF st.raised THEN st
    ELSE IF Len(data) < 8 THEN st
    ELSE LET width  == Slice(data, 16, 20)
             height == Slice(data, 20, 24)
             w == unpack_BE_I(width)
             h == unpack_BE_I(height)
         IN  IF w.raised \/ h.raised THEN [st EXCEPT !.raised = TRUE]
             ELSE [raised |-> FALSE,
                   images |-> Append(st.images,
                                     [w |-> w.val, h |-> h.val, data |-> data])]

\* One iteration of the read loop of create_ico.  st = [raised, images]
ico_iter(st, data) ==
    IF st.raised THEN st
    ELSE IF Slice(data, 0, 8) # PNG_SIGNATURE THEN st
    ELSE LET width  == Slice(data, 16, 20)
             height == Slice(data, 20, 24)
             w == unpack_BE_I(width)
             h == unpack_BE_I(height)
         IN  IF w.raised \/ h.raised THEN [st EXCEPT !.raised = TRUE]
             ELSE [raised |-> FALSE,
                   images |-> Append(st.images,
                                     [w |-> w.val, h |-> h.val, data |-> data])]

RECURSIVE ico_loop(_, _)
ico_loop(st, files) ==
    IF files = <<>> THEN st
    ELSE ico_loop(ico_iter(st, Head(files)), Tail(files))

\* The locals of create_ico when its read loop ends.
ico_read(files) == ico_loop([raised |-> FALSE, images |-> <<>>], files)

\* struct.pack('<HHH', 0, 1, len(images))
ico_header(imgs) == pack_LE_H(0) \o pack_LE_H(1) \o pack_LE_H(Len(imgs))

\* Variant: the dimension is truncated to its low byte.
dim_byte_low_byte(d) == d % 256

\* The width/height byte of a directory entry: `width if width < 256 else 0`.
dim_byte(d) == IF d < 256 THEN d ELSE 0

\* struct.pack('<BBBBHHII', w, h, 0, 0, 1, 32, len(img_data), offset)
ico_entry(img, offset) ==
    pack_B(dim_byte(img.w)) \o pack_B(dim_byte(img.h)) \o pack_B(0) \o pack_B(0)
        \o pack_LE_H(1) \o pack_LE_H(32)
        \o pack_LE_I(Len(img.data)) \o pack_LE_I(offset)

RECURSIVE ico_layout_fixed_offset(_, _, _)
\* Variant: the running offset is not advanced past the payload.
ico_layout_fixed_offset(st, offset, imgs) ==
    IF imgs = <<>> THEN st
    ELSE LET img == Head(imgs) IN
         ico_layout_fixed_offset(
             [entries    |-> st.entries \o ico_entry(img, offset),
              data_block |-> st.data_block \o img.data],
             offset, Tail(imgs))

RECURSIVE ico_layout(_, _, _)
\* The loop `for width, height, img_data in images`:
\* st = [entries, data_block], offset the running offset.
ico_layout(st, offset, imgs) ==
    IF imgs = <<>> THEN st
    ELSE LET img == Head(imgs) IN
         ico_layout([entries    |-> st.entries \o ico_entry(img, offset),
                     data_block |-> st.data_block \o img.data],
                    offset + Len(img.data), Tail(imgs))

\* The bytes written by the `with open(output_file, 'wb')` block.
ico_written(imgs) ==
    LET st == ico_layout([entries |-> <<>>, data_block |-> <<>>],
                         6 + Len(imgs) * 16, imgs)
    IN  ico_header(imgs) \o st.entries \o st.data_block

\* Variant: the empty list is not returned on, so a header is written.
ico_returns_early_never(imgs) == FALSE

\* `if not images: return`
ico_returns_early(imgs) == imgs = <<>>

CreateIco ==
    /\ ico_pc = "ready"
    /\ LET st == ico_read(png_files) IN
       IF st.raised
       THEN /\ ico_pc' = "raised"
            /\ UNCHANGED <<ico_file, ico_opened, images>>
       ELSE IF ico_returns_early(st.images)
       THEN /\ ico_pc' = "returned"
            /\ UNCHANGED <<ico_file, ico_opened, images>>
       ELSE /\ ico_pc' = "returned"
            /\ ico_opened' = TRUE
            /\ ico_file' = [exists |-> TRUE, bytes |-> ico_written(st.images)]
            /\ images' = st.images
    /\ UNCHANGED <<png_files, icns_file, icns_pc, icns_opened, widths>>

----------------------------------------------------------------------------
(* Inputs.                                                                 *)

\* A buffer with the layout of a PNG stream: signature, IHDR chunk length,
\* chunk type, width, height, then `rest`.
IHDR == <<73, 72, 68, 82>>
Png(w, h, rest) ==
    PNG_SIGNATURE \o <<0, 0, 0, 13>> \o IHDR \o pack_BE_I(w) \o pack_BE_I(h) \o rest

\* Buffers of the mixed input sequences.
PngA     == Png(32, 32, <<>>)
PngB     == Png(32, 32, <<8, 6>>)              \* same code as PngA, other payload
PngC     == Png(256, 16, <<7>>)
PngD     == Png(128, 128, <<1, 2, 3>>)
NotPng   == <<136>> \o Tail(Png(64, 64, <<1, 2>>))     \* wrong first byte only
ShortBuf == <<137, 80, 78>>                    \* shorter than the signature
SigOnly  == PNG_SIGNATURE                      \* signature, nothing else
Cut20    == SubSeq(Png(48, 48, <<>>), 1, 20)  \* cut after the width field

Catalogue == {PngA, PngB, PngC, PngD, NotPng, ShortBuf, SigOnly, Cut20}

\* Dimensions of the single-image inputs.
DimValues == {0, 1, 16, 32, 48, 64, 128, 255, 256, 257, 512, 1024, 2000,
              65536, 2147483647}

\* A complete 24-byte header whose bytes outside 16..23 are not those of a PNG
\* header chunk, and a complete PNG.
DimBuffers ==
    {Png(w, h, <<9>>) : w \in DimValues, h \in {16, 255, 256, 300}}
    \cup {PNG_SIGNATURE \o <<1, 2, 3, 4, 5, 6, 7, 8>> \o pack_BE_I(w) \o pack_BE_I(h)
            : w \in {32, 512}, h \in {32, 70000}}

SeqsUpTo(S, n) == UNION {[1..k -> S] : k \in 0..n}

NoFile == [exists |-> FALSE, bytes |-> <<>>]
\* Content of an output file left by an earlier run.
Stale  == [exists |-> TRUE, bytes |-> <<83, 84, 65, 76, 69>>]

Init ==
    /\ png_files \in SeqsUpTo(Catalogue, MaxFiles) \cup {<<b>> : b \in DimBuffers}
    /\ \E old \in {NoFile, Stale} : icns_file = old /\ ico_file = old
    /\ icns_pc = "ready"
    /\ ico_pc = "ready"
    /\ icns_opened = FALSE
    /\ ico_opened = FALSE
    /\ widths = <<>>
    /\ images = <<>>

Next == CreateIcns \/ CreateIco

Spec == Init /\ [][Next]_vars

TypeOK ==
    /\ icns_pc \in {"ready", "returned", "raised"}
    /\ ico_pc \in {"ready", "returned", "raised"}
    /\ icns_opened \in BOOLEAN
    /\ ico_opened \in BOOLEAN
    /\ \A i \in 1..Len(png_files) : \A j \in 1..Len(png_files[i]) :
           png_files[i][j] \in 0..255
    /\ \A j \in 1..Len(icns_file.bytes) : icns_file.bytes[j] \in 0..255
    /\ \A j \in 1..Len(ico_file.bytes) : ico_file.bytes[j] \in 0..255

----------------------------------------------------------------------------
(* Reading the containers back, as a decoder would.                        *)

\* The big-endian unsigned 32-bit integer at byte offset off (0-based).
BE32At(buf, off) ==
    buf[off + 1] * 16777216 + buf[off + 2] * 65536 + buf[off + 3] * 256 + buf[off + 4]

\* The little-endian unsigned 32-bit integer at byte offset off (0-based).
LE32At(buf, off) ==
    buf[off + 1] + buf[off + 2] * 256 + buf[off + 3] * 65536 + buf[off + 4] * 16777216

\* The little-endian unsigned 16-bit integer at byte offset off (0-based).
LE16At(buf, off) == buf[off + 1] + buf[off + 2] * 256

\* The bytes of buf at [off, off + n).
Range(buf, off, n) == SubSeq(buf, off + 1, off + n)

HasSignature(b) == Len(b) >= 8 /\ \A i \in 1..8 : b[i] = PNG_SIGNATURE[i]

\* The input buffers that start with the PNG signature, in input order.
Retained(files) == SelectSeq(files, HasSignature)

RECURSIVE SumLen(_)
SumLen(list) == IF list = <<>> THEN 0 ELSE Len(Head(list)) + SumLen(Tail(list))

\* Sum of the lengths of the first k buffers of list.
SumLenBefore(list, k) == SumLen(SubSeq(list, 1, k - 1))

RECURSIVE IcnsWalk(_, _)
\* Walks the ICNS entries of out from byte offset pos by their declared
\* lengths: [ok, entries], ok iff the walk ends exactly at the end of out.
IcnsWalk(out, pos) ==
    IF pos = Len(out) THEN [ok |-> TRUE, entries |-> <<>>]
    ELSE IF pos + 8 > Len(out) THEN [ok |-> FALSE, entries |-> <<>>]
    ELSE LET n == BE32At(out, pos + 4) IN
         IF n < 8 \/ pos + n > Len(out) THEN [ok |-> FALSE, entries |-> <<>>]
         ELSE LET rest == IcnsWalk(out, pos + n) IN
              [ok      |-> rest.ok,
               entries |-> <<[type     |-> Range(out, pos, 4),
                              declared |-> n,
                              payload  |-> Range(out, pos + 8, n - 8)]>>
                           \o rest.entries]

\* The k-th ICO directory entry of out (k from 1), field by field.
IcoDir(out, k) ==
    LET at == 6 + 16 * (k - 1) IN
    [width   |-> out[at + 1],
     height  |-> out[at + 2],
     palette |-> out[at + 3],
     reserved |-> out[at + 4],
     planes  |-> LE16At(out, at + 4),
     bpp     |-> LE16At(out, at + 6),
     size    |-> LE32At(out, at + 8),
     offset  |-> LE32At(out, at + 12)]

IcnsWrote == icns_pc = "returned" /\ icns_opened
IcoWrote  == ico_pc = "returned" /\ ico_opened

EmptyIcoContainer == [exists |-> TRUE, bytes |-> <<0, 0, 1, 0, 0, 0>>]

----------------------------------------------------------------------------
(* Claims.                                                                 *)

\* C1: given an empty input sequence, create_icns reports an error and
\* produces no file: the output is not opened and holds no entry-less stub.
C1_EmptyInputDeclined ==
    (icns_pc # "ready" /\ png_files = <<>>)
        => (icns_pc = "raised" /\ ~icns_opened)

\* C2: when no input buffer starts with the PNG signature, the create_ico step
\* returns without raising and leaves the output file as it was, unopened.
C2_NoValidImagesWritesNothing ==
    [][(ico_pc = "ready" /\ ico_pc' # "ready" /\ Retained(png_files) = <<>>)
          => (ico_pc' = "returned" /\ ~ico_opened' /\ ico_file' = ico_file)]_vars

C2_Witness ==
    /\ ico_pc = "returned"
    /\ png_files = <<NotPng, ShortBuf>>
    /\ ico_file = Stale
    /\ ~ico_opened

\* C3 (as stated): given zero images, create_ico returns and the output is the
\* 6-byte header reserved=0, type=1, count=0 with nothing after it.
C3_ZeroImageContainer ==
    (ico_pc # "ready" /\ png_files = <<>>)
        => (ico_pc = "returned" /\ ico_file = EmptyIcoContainer)

\* C3 (amended): given zero images, create_ico returns without failing and
\* produces no container at all: the output file is not opened and no header
\* is in it.
C3_ZeroImagesNoContainer ==
    (ico_pc # "ready" /\ png_files = <<>>)
        => /\ ico_pc = "returned"
           /\ ~ico_opened
           /\ ico_file \in {NoFile, Stale}
           /\ ico_file # EmptyIcoContainer

C3_Witness ==
    /\ ico_pc = "returned"
    /\ png_files = <<>>
    /\ ico_file = NoFile

\* C4: every output of create_icns starts with 'icns'; its total-length field
\* is 8 + the sum of (8 + payload length) over the retained images and is the
\* number of bytes written; walking the entries from offset 8 by their
\* declared lengths ends at the end of the file, and each declared length is
\* 8 + the length of that entry's payload, which is the retained buffer.
C4_IcnsLengthsConsistent ==
    IcnsWrote =>
        LET out  == icns_file.bytes
            R    == Retained(png_files)
            walk == IcnsWalk(out, 8)
        IN  /\ Len(out) >= 8
            /\ Range(out, 0, 4) = icns_magic
            /\ BE32At(out, 4) = 8 + SumLen(R) + 8 * Len(R)
            /\ BE32At(out, 4) = Len(out)
            /\ walk.ok
            /\ Len(walk.entries) = Len(R)
            /\ \A k \in 1..Len(R) :
                   /\ walk.entries[k].declared = 8 + Len(R[k])
                   /\ walk.entries[k].payload = R[k]

C4_Witness ==
    /\ IcnsWrote
    /\ widths = <<32, 128, 256>>
    /\ BE32At(icns_file.bytes, 4) = 8 + (8 + 24) + (8 + 27) + (8 + 25)

\* C5: in an ICO output built from N >= 1 retained images the count is N, the
\* k-th directory entry's size is the k-th payload's length, its offset is
\* 6 + 16N + the lengths of the payloads before it, the bytes at
\* [offset, offset + size) are the k-th payload, each range starts where the
\* previous one ends and the last one ends at the end of the file.
C5_IcoOffsetsConsistent ==
    IcoWrote =>
        LET out == ico_file.bytes
            R   == Retained(png_files)
            N   == Len(R)
        IN  /\ N >= 1
            /\ Len(out) >= 6 + 16 * N
            /\ LE16At(out, 4) = N
            /\ \A k \in 1..N :
                   LET e == IcoDir(out, k) IN
                   /\ e.size = Len(R[k])
                   /\ e.offset = 6 + 16 * N + SumLenBefore(R, k)
                   /\ e.offset + e.size <= Len(out)
                   /\ Range(out, e.offset, e.size) = R[k]
                   /\ k < N => IcoDir(out, k + 1).offset = e.offset + e.size
                   /\ k = N => e.offset + e.size = Len(out)

C5_Witness ==
    /\ IcoWrote
    /\ png_files = <<PngA, PngD, PngC>>
    /\ IcoDir(ico_file.bytes, 3).offset = 6 + 48 + 24 + 27
    /\ IcoDir(ico_file.bytes, 3).size = 25

\* The part of C6 that concerns a call that returned: the entries written are
\* the buffers with the signature, verbatim and in input order.
IcnsRetainsSignatureSubsequence ==
    IcnsWrote =>
        LET walk == IcnsWalk(icns_file.bytes, 8)
            R    == Retained(png_files)
        IN  /\ walk.ok
            /\ Len(walk.entries) = Len(R)
            /\ \A k \in 1..Len(R) : walk.entries[k].payload = R[k]
            /\ Len(icns_file.bytes) = 8 + SumLen(R) + 8 * Len(R)

IcoRetainsSignatureSubsequence ==
    IcoWrote =>
        LET out == ico_file.bytes
            R   == Retained(png_files)
        IN  /\ LE16At(out, 4) = Len(R)
            /\ Len(out) = 6 + 16 * Len(R) + SumLen(R)
            /\ \A k \in 1..Len(R) :
                   Range(out, IcoDir(out, k).offset, IcoDir(out, k).size) = R[k]

\* C6: for every input sequence both encoders retain exactly the buffers whose
\* first 8 bytes are the PNG signature, in input order and verbatim, and the
\* ICO count and offsets and the ICNS total length come from that set only.
C6_RetainExactlySignatureSubsequence ==
    /\ icns_pc # "ready" =>
           (IcnsWrote /\ IcnsRetainsSignatureSubsequence)
    /\ ico_pc # "ready" =>
           /\ ico_pc = "returned"
           /\ Retained(png_files) # <<>> =>
                  (IcoWrote /\ IcoRetainsSignatureSubsequence)

\* Whenever an encoder returns, its output holds exactly the signature-bearing
\* buffers, in input order.
C6_HoldsWhenReturned ==
    /\ icns_pc = "returned" => (IcnsWrote /\ IcnsRetainsSignatureSubsequence)
    /\ ico_pc = "returned" =>
           /\ IcoRetainsSignatureSubsequence
           /\ Retained(png_files) # <<>> => IcoWrote

\* The table of the claim C7.
C7_Code(w) ==
    CASE w = 16   -> icp4
      [] w = 32   -> icp5
      [] w = 48   -> icp6
      [] w = 128  -> ic07
      [] w = 256  -> ic08
      [] w = 512  -> ic09
      [] w = 1024 -> ic10
      [] OTHER    -> ic09

\* A buffer with the signature and all of bytes 16..23.
CompleteHeader(b) == HasSignature(b) /\ Len(b) >= 24

C8_DimensionsBigEndianAt16And20 ==
    /\ ico_pc = "returned" =>
           \A k \in 1..Len(images) :
               /\ images[k].data = Retained(png_files)[k]
               /\ images[k].w = BE32At(images[k].data, 16)
               /\ images[k].h = BE32At(images[k].data, 20)
    /\ icns_pc = "returned" =>
           /\ Len(widths) = Len(Retained(png_files))
           /\ \A k \in 1..Len(widths) :
                  widths[k] = BE32At(Retained(png_files)[k], 16)

C8_Witness ==
    /\ ico_pc = "returned"
    /\ icns_pc = "returned"
    /\ png_files = <<PNG_SIGNATURE \o <<1, 2, 3, 4, 5, 6, 7, 8>>
                       \o <<0, 0, 2, 0>> \o <<0, 1, 17, 112>> >>
    /\ images[1].w = 512
    /\ images[1].h = 70000
    /\ widths = <<512>>

\* C9: in every directory entry written by create_ico the width byte is 0 for
\* a width >= 256 and the width otherwise, the height byte likewise from the
\* height alone, both are in 0..255, and palette = 0, reserved = 0,
\* planes = 1, bits per pixel = 32.
C9_DirectoryEntryFields ==
    IcoWrote =>
        LET out == ico_file.bytes
            R   == Retained(png_files)
        IN  \A k \in 1..Len(R) :
                LET e == IcoDir(out, k)
                    w == BE32At(R[k], 16)
                    h == BE32At(R[k], 20)
                IN  /\ e.width = (IF w >= 256 THEN 0 ELSE w)
                    /\ e.height = (IF h >= 256 THEN 0 ELSE h)
                    /\ e.width \in 0..255
                    /\ e.height \in 0..255
                    /\ e.palette = 0
                    /\ e.reserved = 0
                    /\ e.planes = 1
                    /\ e.bpp = 32

C9_Witness ==
    /\ IcoWrote
    /\ png_files = <<Png(2147483647, 255, <<9>>)>>
    /\ IcoDir(ico_file.bytes, 1).width = 0
    /\ IcoDir(ico_file.bytes, 1).height = 255

\* C10: no call of create_icns or create_ico raises, whatever the buffers are.
C10_NoCallRaises ==
    icns_pc # "raised" /\ ico_pc # "raised"

====
